---- MODULE Spec2Model ----
(***************************************************************************)
(* Model of tcgen: the Executor (invocation normalizer), the call          *)
(* interceptor Tcgen.handleFunctionUnderTest / mainCall and the unit       *)
(* instrumenter Tcgen.instrumentClass / Tcgen.start, and the fixture       *)
(* recorder FileLogger with its write streams.                             *)
(*                                                                         *)
(* JavaScript values are modelled as strings ("undefined", "null", "5",    *)
(* "e1", ...); argument lists are sequences of such strings.               *)
(***************************************************************************)
EXTENDS Integers, Sequences, FiniteSets, TLC

\* ------------------------------------------------------------------ bounds
\* callback invocations explored per Executor call
MaxCb == 2
\* longest argument tuple passed to a call
MaxArgs == 2
\* invocations of intercepted members explored
MaxCalls == 2
\* days the clock runs through
MaxDay == 2
\* calls of FileLogger.log explored
MaxLogs == 2

\* ------------------------------------------------------------- JS values
Undefined == "undefined"
Null == "null"
NoExc == "none"

\* the function values that occur: the caller's callback, the wrapper cb
\* the Executor installs, output handlers (the caller's, the default noop,
\* the closure mainCall creates), the callable f, the class, bound members
BoundFns == {"bound:create", "bound:constructor", "bound:add"}
FunctionValues == {"userCb", "cb", "handler", "noop", "closure", "f", "cls"} \cup BoundFns

IsFunction(v) == v \in FunctionValues

\* JavaScript truthiness, on the values that occur
Truthy(v) == v \notin {Undefined, Null, "false", "0"}

\* instanceof Promise
IsPromise(v) == v \in {"p", "prm"}

\* args[0] of a rest array (undefined when the array is empty)
First(args) == IF Len(args) = 0 THEN Undefined ELSE args[1]

\* args.slice(1)
Slice1(args) == IF Len(args) = 0 THEN << >> ELSE Tail(args)

Last(args) == IF Len(args) = 0 THEN Undefined ELSE args[Len(args)]

\* one observable event of a call: the callable being entered, the wrapper
\* cb being entered, the output handler being invoked, the caller's own
\* callback being invoked
Ev(k, a) == [k |-> k, a |-> a]

\* ----------------------------------------------------------------- Tcgen
\* Tcgen.clonePrimitive: JSON.parse(JSON.stringify(input)), null on failure.
\* JSON.stringify of undefined or of a function is undefined, which
\* JSON.parse rejects; an Error or a Promise has no enumerable own property.
clonePrimitive(input) ==
  CASE input = Undefined -> Null
    [] IsFunction(input) -> Null
    [] input \in {"e1", "herr", "TypeError"} -> "{}"
    [] IsPromise(input) -> "{}"
    [] input = "inst" -> "{}"
    [] OTHER -> input

\* args.map(Tcgen.clonePrimitive): inside an array JSON.stringify turns
\* undefined and functions into null
cloneAll(args) == [i \in 1..Len(args) |-> clonePrimitive(args[i])]

\* -------------------------------------------------------------- Executor
\* Executor.constructor (method, outputHandler = () => {}, construct = false, isAsync)
Executor(method, outputHandler, construct, isAsync) ==
  [method |-> method,
   construct |-> IF construct = Undefined THEN "false" ELSE construct,
   isAsync |-> isAsync,
   outputHandler |-> IF outputHandler = Undefined THEN "noop" ELSE outputHandler]

\* The running state of one execute(): the events so far, the promise prm
\* (state, value) and the exception in flight (NoExc when none).
S0 == [events |-> << >>, prm |-> <<"pending", Undefined>>, exc |-> NoExc]

\* the running state with the exception in flight caught
Caught(s) == [s EXCEPT !.exc = NoExc]

\* resolve(v) / reject(e) of prm: the first settlement wins, and the
\* statement is not reached when an exception is in flight
Settle(s, st, v) ==
  IF s.exc = NoExc /\ s.prm[1] = "pending" THEN [s EXCEPT !.prm = <<st, v>>] ELSE s

\* this.outputHandler(...hargs): a non-function handler raises a TypeError;
\* the caller-supplied handler may throw ("herr") on the kinds in throwsOn
outputHandler(s, h, kind, hargs, throwsOn) ==
  IF ~IsFunction(h) THEN [s EXCEPT !.exc = "TypeError"]
  ELSE [s EXCEPT !.events = Append(@, Ev("handler", hargs)),
                 !.exc = IF h = "handler" /\ kind \in throwsOn THEN "herr" ELSE NoExc]

\* const resolving = (...args) => { this.outputHandler(null, ...args); resolve(...args) }
resolving(s, h, args, throwsOn) ==
  Settle(outputHandler(s, h, "ok", <<Null>> \o args, throwsOn), "resolved", First(args))

\* const rejecting = (er) => { this.outputHandler(er); reject(er) }
rejecting(s, h, er, throwsOn) ==
  Settle(outputHandler(s, h, "err", <<er>>, throwsOn), "rejected", er)

\* return prevCb(...args): the caller's own callback, not reached when an
\* exception is in flight
prevCb(s, args) ==
  IF s.exc = NoExc THEN [s EXCEPT !.events = Append(@, Ev("prevCb", args))] ELSE s

\* entering cb
EnterCb(s, args) == [s EXCEPT !.events = Append(@, Ev("cb", args))]

\* a slip: the caller's callback is handed the success payload only
cb_Sliced(s, h, args, throwsOn) ==
  prevCb(IF Truthy(First(args))
         THEN rejecting(EnterCb(s, args), h, First(args), throwsOn)
         ELSE resolving(EnterCb(s, args), h, Slice1(args), throwsOn),
         Slice1(args))

\* function cb (...args) { if (args[0]) rejecting(args[0]) else resolving(...args.slice(1)); return prevCb(...args) }
cb(s, h, args, throwsOn) ==
  prevCb(IF Truthy(First(args))
         THEN rejecting(EnterCb(s, args), h, First(args), throwsOn)
         ELSE resolving(EnterCb(s, args), h, Slice1(args), throwsOn),
         args)

\* The callable invokes the function it received as its last argument: the
\* wrapper cb when the Executor installed it, else the caller's callback.
InvokeLast(s, last, h, args, throwsOn) ==
  IF last = "cb" THEN cb(s, h, args, throwsOn) ELSE prevCb(s, args)

\* ------------------------------------------------- the callable under call
\* What a callable does when entered is an input of the call (env):
\*   cbs      the argument lists with which it synchronously invokes the
\*            function it received as last argument
\*   catches  whether it catches what such an invocation throws
\*   out      "return" (a plain value), "promise" (returns a promise p) or "throw"
\*   ctor     whether it can be the target of `new` (arrow functions and
\*            class methods cannot)
\*   throwsOn the kinds of outcome on which the caller's output handler throws
\* the plain value a callable returns, the error it throws or rejects with
V == "5"
E == "e1"
CbArgLists == {<<Null, V>>, <<"0", V>>, <<E>>, <<E, V>>}

\* what the callable sees of an invocation of its last argument
Seen(r, env) == IF env.catches THEN Caught(r) ELSE r

RECURSIVE RunCbs(_, _, _, _, _)
RunCbs(s, cbs, last, h, env) ==
  IF cbs = << >> \/ s.exc # NoExc THEN s
  ELSE RunCbs(Seen(InvokeLast(s, last, h, Head(cbs), env.throwsOn), env),
              Tail(cbs), last, h, env)

\* the value of `this` inside the callable: a bound function keeps its bound
\* receiver when called and ignores it when constructed
BoundThis(fn) == IF fn = "bound:create" THEN "cls" ELSE "proto"

ThisOf(method, mode) ==
  IF mode = "construct" THEN "fresh"
  ELSE IF method \in BoundFns THEN BoundThis(method) ELSE Undefined

\* entering the callable
Enter(s, method, mode, received) ==
  [s EXCEPT !.events = Append(@, Ev("method", <<mode, ThisOf(method, mode)>> \o received))]

\* how the callable ends: it lets an exception through, throws, or returns
Outcome(s, mode, env) ==
  IF s.exc # NoExc THEN [s |-> s, ret |-> Undefined]
  ELSE IF env.out = "throw" THEN [s |-> [s EXCEPT !.exc = E], ret |-> Undefined]
  ELSE [s |-> s,
        ret |-> IF env.out = "promise" THEN "p"
                ELSE IF mode = "construct" THEN "inst" ELSE V]

\* Entering the callable with the argument list `received`, as a call or as a
\* construction. Yields the running state (exc set when it throws) and the
\* value it evaluates to.
RunCallable(s, method, mode, received, h, env) ==
  IF mode = "construct" /\ ~env.ctor
  THEN [s |-> [s EXCEPT !.exc = "TypeError"], ret |-> Undefined]
  ELSE Outcome(RunCbs(Enter(s, method, mode, received), env.cbs, Last(received), h, env),
               mode, env)

\* payload.unshift(null); Function.prototype.bind.apply(method, payload): the
\* first element is the bound this, the others the bound arguments
BoundArgs(payload) ==
  IF Len(payload) > 0 THEN Slice1(<<Null>> \o payload) ELSE << >>

\* ret = new (...)(): this.returnValue is not assigned
Constructed(r) == [s |-> r.s, ret |-> r.ret, returnValue |-> Undefined]

\* ret = method(...payload); this.returnValue = ret
Called(r) ==
  [s |-> r.s, ret |-> r.ret, returnValue |-> IF r.s.exc = NoExc THEN r.ret ELSE Undefined]

\* The try block of execute (lines 70-81): the running state, ret, and
\* this.returnValue, which only the non-construct branch assigns.
TryBlock(exec, payload, env) ==
  IF Truthy(exec.construct)
  THEN Constructed(RunCallable(S0, exec.method, "construct", BoundArgs(payload),
                               exec.outputHandler, env))
  ELSE Called(RunCallable(S0, exec.method, "call", payload, exec.outputHandler, env))

\* a slip: the test of line 86 (isAsync !== false) used at line 91
ReturnValueAfter_NotFalse(isAsync, returnValue) ==
  IF isAsync # "false" THEN "prm" ELSE returnValue

\* if (this.isAsync) { this.returnValue = prm }   (lines 91-93)
ReturnValueAfter(isAsync, returnValue) ==
  IF Truthy(isAsync) THEN "prm" ELSE returnValue

\* a slip: the test for an explicit false is left out
ReturnWithCB_NotOne(exec, params) ==
  exec.isAsync # "1" /\ IsFunction(Last(params))

\* line 61: the last argument is replaced by cb
ReturnWithCB(exec, params) ==
  exec.isAsync # "false" /\ exec.isAsync # "1" /\ IsFunction(Last(params))

\* lines 63-64: the payload the callable is given
Payload(exec, params) ==
  IF ReturnWithCB(exec, params) THEN [params EXCEPT ![Len(params)] = "cb"] ELSE params

\* line 86: completion is left to the promise the callable returned
Waits(exec, params, t) ==
  t.s.exc = NoExc /\ ~ReturnWithCB(exec, params) /\ exec.isAsync # "false" /\ IsPromise(t.ret)

\* lines 82-89: what follows the try block inside the promise executor
AfterTry(exec, params, env, t) ==
  IF t.s.exc # NoExc
  THEN rejecting(Caught(t.s), exec.outputHandler, t.s.exc, env.throwsOn)
  ELSE IF ReturnWithCB(exec, params) \/ Waits(exec, params, t) THEN t.s
  ELSE resolving(t.s, exec.outputHandler, <<t.ret>>, env.throwsOn)

\* new Promise(executor): an exception that escapes the executor function
\* rejects prm and goes no further
NewPromise(s) ==
  IF s.exc # NoExc THEN Settle(Caught(s), "rejected", s.exc) ELSE s

\* the Executor call as the model records it
Executed(exec, params, env, t, done) ==
  [started |-> TRUE, exec |-> exec, params |-> params, env |-> env,
   events |-> done.events, prm |-> done.prm,
   returnValue |-> ReturnValueAfter(exec.isAsync, t.returnValue),
   \* what the callable evaluated to, and what it threw
   ret |-> t.ret, threw |-> t.s.exc,
   \* what execute throws to its caller: what gets past new Promise(...)
   thrown |-> done.exc,
   waiting |-> Waits(exec, params, t),
   p |-> IF t.s.exc = NoExc /\ t.ret = "p" THEN "pending" ELSE "none",
   last |-> Last(Payload(exec, params)),
   ncb |-> Len(env.cbs)]

ExecuteFrom(exec, params, env, t) ==
  Executed(exec, params, env, t, NewPromise(AfterTry(exec, params, env, t)))

\* Executor.execute(...params): the whole synchronous part of one call.
execute(exec, params, env) ==
  ExecuteFrom(exec, params, env, TryBlock(exec, Payload(exec, params), env))

\* ------------------------------------------------------ call interceptor
\* The unit under instrumentation: a class with one static member and two
\* members on its prototype.
Statics == {"create"}
ProtoMembers == {"constructor", "add"}
Members == Statics \cup ProtoMembers

\* cls[prop].bind(cls) / cls.prototype[prop].bind(cls.prototype)
Bind(prop) ==
  CASE prop = "create" -> "bound:create"
    [] prop = "constructor" -> "bound:constructor"
    [] prop = "add" -> "bound:add"

BoolStr(b) == IF b THEN "true" ELSE "false"

\* isConstructor = false: the default of a missing argument
DefaultFalse(isConstructor) ==
  IF isConstructor = Undefined THEN "false" ELSE isConstructor

\* Tcgen.handleFunctionUnderTest (sLogger, ent, prop, isConstructor = false):
\* the state the returned mainCall closes over. applyArgs is a list of
\* argument values, each written as a sequence of strings.
handleFunctionUnderTest(sLogger, ent, prop, isConstructor) ==
  [sLogger |-> sLogger, ent |-> ent, prop |-> prop,
   isConstructor |-> DefaultFalse(isConstructor),
   applyArgs |-> << <<prop>>, <<DefaultFalse(isConstructor)>>, <<clonePrimitive(ent)>> >>]

\* FileLogger.log (method, construct, inInstance, inputParams, output): the
\* record built from the positional arguments it is applied to
Arg(args, i) == IF i <= Len(args) THEN args[i] ELSE <<Undefined>>

log(args) ==
  [require |-> Arg(args, 3),
   payload |-> Arg(args, 4), construct |-> Arg(args, 2), method |-> Arg(args, 1),
   output |-> Arg(args, 5)]

\* lines 139-143: what the output handler pushes for (err, ...data)
Pushed(err, data) ==
  IF Truthy(err) THEN <<"error", clonePrimitive(err)>>
  ELSE <<"output">> \o
       (IF Len(data) > 1 THEN cloneAll(data) ELSE <<clonePrimitive(First(data))>>)

\* The output handler mainCall creates (lines 138-145), applied to the
\* handler invocations hs of one call, in order: each pushes its outcome on
\* applyArgs and applies sLogger to applyArgs.
RECURSIVE closure(_, _, _)
RECURSIVE Forward(_, _, _)
Forward(pushed, recorded, hs) ==
  closure(pushed, Append(recorded, log(pushed)), hs)

closure(applyArgs, recorded, hs) ==
  IF hs = << >> THEN [applyArgs |-> applyArgs, recorded |-> recorded]
  ELSE Forward(Append(applyArgs, Pushed(First(Head(hs)), Slice1(Head(hs)))),
               recorded, Tail(hs))

\* the argument lists of the handler events among evs
RECURSIVE HandlerArgs(_)
HandlerArgs(evs) ==
  IF evs = << >> THEN << >>
  ELSE (IF Head(evs).k = "handler" THEN <<Head(evs).a>> ELSE << >>) \o HandlerArgs(Tail(evs))

\* ------------------------------------------------------------ FileLogger
\* A write stream as the recorder sees it: the chunks it accepted, whether
\* end() was called on it, the chunks it refused, whether the file could be
\* opened, and the 'error' event it has to emit ("none" when none).
\* this.fileName and this.writer before the first updateWriter()
NoFile == 0
NoWriter == 0

\* the chunks written: the header, the record of the n-th log(), the footer
Chunk(k, n) == [k |-> k, n |-> n]
Header == Chunk("header", 0)
Footer == Chunk("footer", 0)

\* `{"type":"unit","require":"${join(sourcePath, fileBaseName)},"tests":[`
HeaderText ==
  <<"{", "\"", "type", "\"", ":", "\"", "unit", "\"", ",",
    "\"", "require", "\"", ":", "\"", "PATH", ",", "\"", "tests", "\"", ":", "[">>

\* `\n${JSON.stringify({ require, request: { payload, construct, method }, output }, null, 2)}`
RecordText ==
  <<"\n", "{", "\"", "require", "\"", ":", "null", ",",
    "\"", "request", "\"", ":", "{",
    "\"", "payload", "\"", ":", "[", "]", ",",
    "\"", "construct", "\"", ":", "false", ",",
    "\"", "method", "\"", ":", "\"", "add", "\"", "}", ",",
    "\"", "output", "\"", ":", "null", "}">>

\* ']\n'
FooterText == <<"]", "\n">>

\* getFileName(): fileBaseName + String(new Date()).split(' ').slice(1, 4).join('_'),
\* the month, day of month and year of the clock; the time of day is dropped
getFileName(now) == now.day

\* mkdirSync(logdir) inside try/catch: creates the one directory when its
\* parent exists; otherwise it throws and the exception is swallowed
mkdirSync(disk) == IF disk.parent THEN [disk EXCEPT !.logdir = TRUE] ELSE disk

\* createWriteStream(join(logdir, fileName), { flags: 'a' }): returns a stream
\* at once; when the directory is missing the open fails later and the stream
\* emits 'error'
createWriteStream(owner, path, name, disk) ==
  [owner |-> owner, path |-> path, name |-> name, content |-> << >>,
   ended |-> FALSE, refused |-> {}, opened |-> disk.logdir,
   err |-> IF disk.logdir THEN "none" ELSE "ENOENT"]

\* writer.write(chunk): a stream that has ended drops the chunk and emits
\* 'error' (write after end)
write(s, chunk) ==
  IF s.ended
  THEN [s EXCEPT !.refused = @ \cup {chunk},
                 !.err = IF @ = "none" THEN "ERR_STREAM_WRITE_AFTER_END" ELSE @]
  ELSE [s EXCEPT !.content = Append(@, chunk)]

\* writer.end(chunk): write(chunk), then no more writes are accepted
end(s, chunk) == [write(s, chunk) EXCEPT !.ended = TRUE]

\* stop (callback = noop): if (this.writer) { this.writer.end(']\n'); callback() }
stop(io, i) ==
  IF io.loggers[i].writer # NoWriter
  THEN [io EXCEPT !.streams[io.loggers[i].writer] = end(@, Footer)]
  ELSE io

\* lines 47-49: this.fileName = fileName; this.writer = createWriteStream(...);
\* this.writer.write(header)
Opened(io, i, fileName) ==
  [io EXCEPT !.loggers[i].fileName = fileName,
             !.loggers[i].writer = Len(io.streams) + 1,
             !.streams = Append(@, write(createWriteStream(i, io.loggers[i].sourcePath,
                                                           fileName, io.disk),
                                         Header))]

\* a slip: the stream of the day before is left open
updateWriter_NoStop(io, i, now) ==
  IF getFileName(now) # io.loggers[i].fileName
  THEN Opened(io, i, getFileName(now))
  ELSE io

\* updateWriter (): if (fileName !== this.fileName) { this.stop(); ... }
updateWriter(io, i, now) ==
  IF getFileName(now) # io.loggers[i].fileName
  THEN Opened(stop(io, i), i, getFileName(now))
  ELSE io

\* the fields of a FileLogger before updateWriter()
Constructing(io, sourcePath) ==
  [io EXCEPT !.disk = mkdirSync(@),
             !.loggers = Append(@, [sourcePath |-> sourcePath, fileName |-> NoFile,
                                    writer |-> NoWriter])]

\* new FileLogger(logdir, sourcePath, fileBaseName): the logger gets the next
\* index; logdir is the directory join(destdir, ...srcPath) of the source path
FileLogger(io, sourcePath, now) ==
  updateWriter(Constructing(io, sourcePath), Len(io.loggers) + 1, now)

\* this.writer.write(`\n${str}`), line 83
Written(io, i, chunk) ==
  [io EXCEPT !.streams[io.loggers[i].writer] = write(@, chunk)]

\* FileLogger.log(...) of the n-th record: updateWriter(), then the write
Logged(io, i, now, n) == Written(updateWriter(io, i, now), i, Chunk("rec", n))

\* what require(fl) yields: a class, or an object with these entries
Loadable ==
  {[v |-> "cls", entries |-> << >>]} \cup
  {[v |-> "{}", entries |-> es] :
     es \in {<< >>, <<"cls">>, <<"5", "cls">>, <<"cls", "cls">>}}

\* Tcgen.start, lines 185-191: instrumentClass is called with the export and,
\* when the export is an object, with each of its entries
Candidates(loaded) ==
  <<loaded.v>> \o (IF loaded.v = "{}" THEN loaded.entries ELSE << >>)

\* the guard of instrumentClass, line 157: only classes are instrumented
IsClass(v) == v = "cls"

\* the logger the observed wrappers close over: the one their
\* instrumentClass constructed, the first of the run
SLogger == 1

\* the source path of the one file in filelist
SourcePath == "a.js"

\* instrumentClass(fl, c) for each candidate c in turn: one new Logger per class
RECURSIVE InstrumentAll(_, _, _)
InstrumentAll(io, cands, now) ==
  IF cands = << >> THEN io
  ELSE InstrumentAll(IF IsClass(Head(cands)) THEN FileLogger(io, SourcePath, now) ELSE io,
                     Tail(cands), now)

\* ---------------------------------------------------------------- state
VARIABLES
  ex,         \* the Executor call under observation (Executor.main)
  wrappers,   \* member name -> what its installed mainCall closes over
  ctor,       \* member name -> whether the original can be the target of new
  heap,       \* the state of the instance o and of cls.prototype
  recorded,   \* the records FileLogger.log was asked to write, in order
  wc,         \* the latest invocation of an intercepted member
  ncalls,     \* invocations of intercepted members so far
  now,        \* the clock: the day and the half of the day
  io,         \* the FileLoggers, their streams and the destination directory
  host,       \* "running", or the error that ended the host program
  logged,     \* the calls of FileLogger.log so far: logger, day, whether
              \* stop() had been called on that logger before
  stopped     \* the loggers the host has called stop() on

vars == <<ex, wrappers, ctor, heap, recorded, wc, ncalls, now, io, host, logged, stopped>>
logVars == <<now, io, host, logged, stopped>>
tcgenVars == <<wrappers, ctor, heap, recorded, wc, ncalls, now, io, host, logged, stopped>>

NoEnv == [cbs |-> << >>, catches |-> FALSE, out |-> "return", ctor |-> TRUE, throwsOn |-> {}]

Idle == [started |-> FALSE, exec |-> Executor("f", Undefined, Undefined, Undefined),
         params |-> << >>, env |-> NoEnv, events |-> << >>,
         prm |-> <<"pending", Undefined>>, returnValue |-> Undefined,
         ret |-> Undefined, threw |-> NoExc,
         thrown |-> NoExc, waiting |-> FALSE, p |-> "none", last |-> Undefined, ncb |-> 0]

NoCall == [started |-> FALSE, member |-> "add", caller |-> "o", args |-> << >>,
           applyAtStart |-> << >>, recvAtStart |-> Undefined, call |-> Idle,
           returned |-> Undefined, thrown |-> NoExc, forwarded |-> << >>]

\* the argument tuples explored: plain values, the last one possibly a callback
Plain(n) == [i \in 1..n |-> "2"]
Payloads == {Plain(n) : n \in 0..MaxArgs} \cup
            {Append(Plain(n), "userCb") : n \in 0..(MaxArgs - 1)}

SyncCbs == {<< >>} \cup {<<a>> : a \in CbArgLists}

Envs == [cbs : SyncCbs, catches : BOOLEAN, out : {"return", "promise", "throw"},
         ctor : BOOLEAN, throwsOn : SUBSET {"ok", "err"}]

Objects == {"o", "proto"}
ObjStates == {"{n:0}", "{n:1}"}

TcgenInit0 ==
  /\ wrappers = << >>
  /\ heap = [x \in Objects |-> "{n:0}"]
  /\ recorded = << >>
  /\ wc = NoCall
  /\ ncalls = 0

\* no logger yet; the parent of the destination directory of the source
\* path exists or not, the directory itself does not
LoggerInit(parents) ==
  /\ now = [day |-> 1, half |-> "am"]
  /\ \E b \in parents :
       io = [loggers |-> << >>, streams |-> << >>,
             disk |-> [parent |-> b, logdir |-> FALSE]]
  /\ host = "running"
  /\ logged = << >>
  /\ stopped = {}

Init ==
  /\ ex = Idle
  /\ TcgenInit0
  /\ LoggerInit({TRUE})
  /\ ctor = [m \in Members |-> TRUE]

\* a class is constructible itself; its other members are when the unit is
\* written with functions and are not when it is written with class syntax
TcgenInit ==
  /\ ex = Idle
  /\ TcgenInit0
  /\ LoggerInit({TRUE})
  /\ \E b \in BOOLEAN : ctor = [m \in Members |-> b \/ m = "constructor"]

\* Executor.main(method, params, outputHandler, construct, isAsync)
ExecutorMain ==
  /\ ~ex.started
  /\ \E params \in Payloads, oh \in {"handler", Undefined},
        construct \in {Undefined, "false", "true"},
        isAsync \in {Undefined, "false", "true", "1"}, env \in Envs :
       /\ env.cbs # << >> => IsFunction(Last(params))
       /\ env.catches => env.cbs # << >>
       /\ oh = Undefined => env.throwsOn = {}
       /\ ex' = execute(Executor("f", oh, construct, isAsync), params, env)
  /\ UNCHANGED tcgenVars

\* the running state in which a continuation of the call c starts
Running(c) == [events |-> c.events, prm |-> c.prm, exc |-> NoExc]

\* the call c after a continuation that ended in the running state s; an
\* exception the continuation lets through is lost to the call
Continued(c, s) == [c EXCEPT !.events = s.events, !.prm = s.prm]

\* Later, the callable invokes the function it received as last argument.
AsyncCallback ==
  /\ ex.started
  /\ \E i \in 1..Len(ex.events) : ex.events[i].k = "method"
  /\ IsFunction(ex.last)
  /\ ex.ncb < MaxCb
  /\ \E args \in CbArgLists :
       ex' = [Continued(ex, InvokeLast(Running(ex), ex.last, ex.exec.outputHandler,
                                       args, ex.env.throwsOn))
                EXCEPT !.ncb = @ + 1]
  /\ UNCHANGED tcgenVars

\* .catch(rejecting): runs when p rejected or the reaction before it threw
CatchRejecting(s, h, throwsOn) ==
  IF s.exc # NoExc THEN rejecting(Caught(s), h, s.exc, throwsOn) ELSE s

\* a slip: the chain ends after .then(resolving), without .catch(rejecting)
Reactions_NoCatch(s, st, h, throwsOn) ==
  IF st = "resolved" THEN resolving(s, h, <<V>>, throwsOn) ELSE [s EXCEPT !.exc = E]

\* ret.then(resolving.bind(this)).catch(rejecting.bind(this)), line 87, once
\* the promise the callable returned has settled as st
Reactions(s, st, h, throwsOn) ==
  CatchRejecting(IF st = "resolved" THEN resolving(s, h, <<V>>, throwsOn)
                 ELSE [s EXCEPT !.exc = E],
                 h, throwsOn)

\* The promise p the callable returned settles; when execute chained
\* ret.then(resolving).catch(rejecting) on it (line 87) the reactions run.
PromiseSettles ==
  /\ ex.started
  /\ ex.p = "pending"
  /\ \E st \in {"resolved", "rejected"} :
       ex' = [(IF ex.waiting
               THEN Continued(ex, Reactions(Running(ex), st, ex.exec.outputHandler,
                                            ex.env.throwsOn))
               ELSE ex)
                EXCEPT !.p = st]
  /\ UNCHANGED tcgenVars

\* Tcgen.instrumentClass(filePath, cls), lines 163-173: every function-valued
\* own property of cls and of cls.prototype is replaced by a mainCall.
Installed ==
  [prop \in Members |->
     IF prop \in Statics
     THEN handleFunctionUnderTest("sLogger", Bind(prop), Undefined, Undefined)
     ELSE handleFunctionUnderTest("sLogger", Bind(prop),
                                  BoolStr(prop = "constructor"), Undefined)]

\* Tcgen.instrumentClass(filePath, cls) for a class: a new Logger for the
\* source path (lines 158-162), then the wrappers.
instrumentClass ==
  /\ wrappers = << >>
  /\ wrappers' = Installed
  /\ io' = FileLogger(io, SourcePath, now)
  /\ UNCHANGED <<ex, ctor, heap, recorded, wc, ncalls, now, host, logged, stopped>>

\* the object an intercepted member is invoked on
Caller(prop) == IF prop \in Statics THEN "cls" ELSE "o"

\* const executor = new Executor(ent, prop, (err, ...data) => {...}, isConstructor)
NewExecutor(w) == Executor(w.ent, w.prop, "closure", w.isConstructor)

\* the invocations of the closure during the call c
ClosureCalls(w, c) ==
  IF NewExecutor(w).outputHandler = "closure" THEN HandlerArgs(c.events) ELSE << >>

\* the invocation as the model records it: c is the Executor call, r what
\* the closure made of applyArgs and what it forwarded to the recorder
Invocation(prop, args, w, c, r) ==
  [started |-> TRUE, member |-> prop, caller |-> Caller(prop), args |-> args,
   applyAtStart |-> w.applyArgs,
   recvAtStart |-> IF Caller(prop) = "cls" THEN "cls" ELSE heap[Caller(prop)],
   \* return executor.returnValue
   call |-> c, returned |-> c.returnValue, thrown |-> c.thrown,
   forwarded |-> r.recorded]

\* sLogger.apply(sLogger, applyArgs), line 144, for each of k records in turn,
\* the first of them the (n+1)-th log() of the run
RECURSIVE LogEach(_, _, _, _)
LogEach(o, t, n, k) ==
  IF k = 0 THEN o ELSE LogEach(Logged(o, SLogger, t, n + 1), t, n + 1, k - 1)

MainCallEnds(prop, args, w, c, r) ==
  /\ wrappers' = [wrappers EXCEPT ![prop].applyArgs = r.applyArgs]
  /\ recorded' = recorded \o r.recorded
  /\ io' = LogEach(io, now, Len(logged), Len(r.recorded))
  /\ logged' = logged \o [k \in 1..Len(r.recorded) |->
                            [logger |-> SLogger, day |-> now.day,
                             afterStop |-> SLogger \in stopped]]
  /\ wc' = Invocation(prop, args, w, c, r)

MainCallRuns(prop, args, w, c) ==
  MainCallEnds(prop, args, w, c,
               closure(Append(w.applyArgs, cloneAll(args)), << >>, ClosureCalls(w, c)))

\* mainCall (...args), lines 136-148: one invocation of an intercepted member,
\* on the class for a static member and on the instance o otherwise.
mainCall ==
  /\ wrappers # << >>
  /\ ncalls < MaxCalls
  /\ \E prop \in Members, args \in Payloads, out \in {"return", "promise", "throw"} :
       MainCallRuns(prop, args, wrappers[prop],
                    execute(NewExecutor(wrappers[prop]), args,
                            [NoEnv EXCEPT !.out = out, !.ctor = ctor[prop]]))
  /\ ncalls' = ncalls + 1
  /\ UNCHANGED <<ex, ctor, heap, now, host, stopped>>

\* The host program changes the state of the instance or of the prototype.
Mutate ==
  /\ \E x \in Objects, v \in ObjStates :
       /\ heap[x] # v
       /\ heap' = [heap EXCEPT ![x] = v]
  /\ UNCHANGED <<ex, wrappers, ctor, recorded, wc, ncalls>>
  /\ UNCHANGED logVars

\* Tcgen.start(): the one file of filelist is loaded and instrumented. The
\* wrappers observed are those of the first class instrumented.
start ==
  /\ host = "running"
  /\ io.loggers = << >>
  /\ wrappers = << >>
  /\ \E loaded \in Loadable :
       /\ io' = InstrumentAll(io, Candidates(loaded), now)
       /\ wrappers' = IF \E k \in 1..Len(Candidates(loaded)) : IsClass(Candidates(loaded)[k])
                      THEN Installed ELSE wrappers
  /\ UNCHANGED <<ex, ctor, heap, recorded, wc, ncalls, now, host, logged, stopped>>

\* The host (or the closure of a mainCall) calls log() on a FileLogger.
FileLoggerLog ==
  /\ host = "running"
  /\ Len(logged) < MaxLogs
  /\ \E i \in 1..Len(io.loggers) :
       /\ io' = Logged(io, i, now, Len(logged) + 1)
       /\ logged' = Append(logged, [logger |-> i, day |-> now.day,
                                     afterStop |-> i \in stopped])
  /\ UNCHANGED <<ex, wrappers, ctor, heap, recorded, wc, ncalls, now, host, stopped>>

\* The host calls stop() on a FileLogger.
FileLoggerStop ==
  /\ host = "running"
  /\ \E i \in 1..Len(io.loggers) :
       /\ io' = stop(io, i)
       /\ stopped' = stopped \cup {i}
  /\ UNCHANGED <<ex, wrappers, ctor, heap, recorded, wc, ncalls, now, host, logged>>

\* Time passes: noon, or midnight and with it the next day.
TimePasses ==
  /\ host = "running"
  /\ \/ now.half = "am" /\ now' = [now EXCEPT !.half = "pm"]
     \/ now.half = "pm" /\ now.day < MaxDay
          /\ now' = [day |-> now.day + 1, half |-> "am"]
  /\ UNCHANGED <<ex, wrappers, ctor, heap, recorded, wc, ncalls, io, host, logged, stopped>>

\* A stream emits its 'error' event; no listener is registered on the
\* writer (line 48), so the event is thrown as an uncaught exception.
StreamError ==
  /\ host = "running"
  /\ \E j \in 1..Len(io.streams) :
       /\ io.streams[j].err # "none"
       /\ host' = io.streams[j].err
  /\ UNCHANGED <<ex, wrappers, ctor, heap, recorded, wc, ncalls, now, io, logged, stopped>>

Next == ExecutorMain \/ AsyncCallback \/ PromiseSettles

Spec == Init /\ [][Next]_vars

\* A promise that can settle does settle: the event loop runs the reactions
\* of a settled promise as long as the process lives. Nothing obliges a
\* callable to invoke the function it was handed.
FairSpec == Init /\ [][Next]_vars /\ WF_vars(PromiseSettles)

TcgenNext == instrumentClass \/ mainCall \/ Mutate

TcgenSpec == TcgenInit /\ [][TcgenNext]_vars

LoggerInit0 ==
  /\ ex = Idle
  /\ TcgenInit0
  /\ ctor = [m \in Members |-> TRUE]
  /\ LoggerInit(BOOLEAN)

LoggerNext == start \/ FileLoggerLog \/ FileLoggerStop \/ TimePasses \/ StreamError

LoggerSpec == LoggerInit0 /\ [][LoggerNext]_vars

\* ================================================================ claims
\* the number of output handler invocations among the events evs
HandlerCount(evs) == Cardinality({i \in 1..Len(evs) : evs[i].k = "handler"})

\* the callable of the observed call was entered and returned the plain value
ReturnedPlain == ex.started /\ ex.env.out = "return" /\ ex.threw = NoExc

\* C1: for a single call of execute, whatever the callable and the handler
\* do, the output handler is invoked at most once.
C1_HandlerAtMostOnce == HandlerCount(ex.events) <= 1

\* C2 (as stated): a non-constructor call of a synchronous callable that
\* returns v leaves exactly v in Executor.returnValue, whatever isAsync is.
C2_ReturnsV ==
  (ReturnedPlain /\ ~Truthy(ex.exec.construct)) => ex.returnValue = V

\* C2 (amended): a non-constructor call of a synchronous callable that returns
\* v leaves exactly v in Executor.returnValue when isAsync is not truthy.
C2_ReturnsVUnlessAsync ==
  (ReturnedPlain /\ ~Truthy(ex.exec.construct) /\ ~Truthy(ex.exec.isAsync))
    => (ex.returnValue = V /\ ex.thrown = NoExc)

C2_Witness ==
  /\ ReturnedPlain /\ ~Truthy(ex.exec.construct) /\ ex.exec.isAsync = Undefined
  /\ Len(ex.params) = 2 /\ ex.last = "cb"
  /\ ex.returnValue = V

\* C3: when a synchronous callable throws e, the call through the normalizer
\* throws e to its caller, and e is reported to the output handler as error.
C3_ThrowReachesCaller ==
  (ex.started /\ ex.env.out = "throw" /\ ex.threw = E)
    => (ex.thrown = E /\ \E i \in 1..Len(ex.events) : ex.events[i] = Ev("handler", <<E>>))

\* C4: for a callable that returns a promise p, isAsync not false, once p has
\* settled the output handler has been invoked exactly once, with (null, value)
\* if p resolved and with (error) if p rejected, and the value handed back is
\* p or a promise settled as p.
C4_PromiseReportedOnce ==
  (ex.started /\ ex.exec.isAsync # "false" /\ ex.p \in {"resolved", "rejected"})
    => /\ HandlerArgs(ex.events) =
            (IF ex.p = "resolved" THEN << <<Null, V>> >> ELSE << <<E>> >>)
       /\ \/ ex.returnValue = "p"
          \/ /\ ex.returnValue = "prm"
             /\ ex.prm = <<ex.p, IF ex.p = "resolved" THEN V ELSE E>>

C6_ConstructReturnsInstance ==
  (ReturnedPlain /\ Truthy(ex.exec.construct))
    => (ex.returnValue = "inst" /\ HandlerArgs(ex.events) = << <<Null, "inst">> >>)

\* C7: an intercepted instance method m invoked with arguments a that
\* synchronously returns v passes exactly one record to the recorder, with
\* method = m, construct = false, payload = snapshot of a, output = {output: v}.
C7_OneRecordPerCall ==
  (wc.started /\ wc.member = "add" /\ wc.call.env.out = "return")
    => /\ Len(wc.forwarded) = 1
       /\ wc.forwarded[1].method = <<"add">>
       /\ wc.forwarded[1].construct = <<"false">>
       /\ wc.forwarded[1].payload = cloneAll(wc.args)
       /\ wc.forwarded[1].output = <<"output", clonePrimitive(V)>>

\* C8: whenever an invocation of an intercepted member starts, the wrapper's
\* applyArgs holds only its three fixed leading elements.
C8_ApplyArgsFresh == wc.started => Len(wc.applyAtStart) = 3

\* C9: an intercepted instance method called on the instance o runs the
\* original method, as a call, with this = o.
C9_ThisIsInstance ==
  (wc.started /\ wc.member = "add")
    => /\ \E i \in 1..Len(wc.call.events) : wc.call.events[i].k = "method"
       /\ \A i \in 1..Len(wc.call.events) :
            wc.call.events[i].k = "method"
              => (wc.call.events[i].a[1] = "call" /\ wc.call.events[i].a[2] = wc.caller)

\* C10: the receiver snapshot an invocation hands to the recorder (the third
\* element of applyArgs) is the receiver's state at the start of that call.
C10_SnapshotAtCall ==
  (wc.started /\ wc.member \in ProtoMembers)
    => wrappers[wc.member].applyArgs[3] = <<clonePrimitive(wc.recvAtStart)>>

\* a call through an installed wrapper never leaves asynchronous work behind
WrapperCallsAreSynchronous ==
  wc.started => (~wc.call.waiting /\ wc.call.last # "cb")

\* ------------------------------------------------- claims on the recorder
\* the records logger i logged on day d, from the n-th log() on, in order
RECURSIVE RecsFrom(_, _, _)
RecsFrom(n, i, d) ==
  IF n > Len(logged) THEN << >>
  ELSE (IF logged[n].logger = i /\ logged[n].day = d THEN <<Chunk("rec", n)>> ELSE << >>)
       \o RecsFrom(n + 1, i, d)

\* what the stream s holds when every record of its day reached it
Document(s) ==
  <<Header>> \o RecsFrom(1, s.owner, s.name) \o (IF s.ended THEN <<Footer>> ELSE << >>)

\* the host has called log() on logger i only before any stop() on it
NoLogAfterStop(i) ==
  \A n \in 1..Len(logged) : logged[n].logger = i => ~logged[n].afterStop

\* the record chunk c is in the stream of the logger and of the day it was logged on
OnItsDay(s, c) == logged[c.n].logger = s.owner /\ logged[c.n].day = s.name

\* C11: when a FileLogger logs records on one day and then on a later day,
\* stop() coming last, the stream of the earlier day holds header, the records
\* of that day, footer and is ended before the stream of the later day exists;
\* every record is in the stream of the day it was logged on and of no other,
\* after that stream's header; and a stream that was stopped holds header,
\* its records, footer.
C11_RolloverRoundTrip ==
  \A j \in 1..Len(io.streams) :
    /\ \A k \in 1..Len(io.streams[j].content) :
         io.streams[j].content[k].k = "rec"
           => (OnItsDay(io.streams[j], io.streams[j].content[k])
               /\ k > 1 /\ io.streams[j].content[1] = Header)
    /\ \A j2 \in (j + 1)..Len(io.streams) :
         io.streams[j2].owner = io.streams[j].owner
           => (io.streams[j].ended /\ Last(io.streams[j].content) = Footer
               /\ io.streams[j].name < io.streams[j2].name)
    /\ NoLogAfterStop(io.streams[j].owner)
         => io.streams[j].content = Document(io.streams[j])

C11_Witness ==
  \E j \in 1..Len(io.streams), j2 \in 1..Len(io.streams) :
    /\ j < j2
    /\ io.streams[j].owner = io.streams[j2].owner
    /\ io.streams[j].owner \in stopped
    /\ NoLogAfterStop(io.streams[j].owner)
    /\ io.streams[j].content = <<Header, Chunk("rec", 1), Footer>>
    /\ io.streams[j2].content = <<Header, Chunk("rec", 2), Footer>>
    /\ logged[1].day < logged[2].day

\* the text of a chunk, and of a stream's content
Text(c) ==
  CASE c.k = "header" -> HeaderText
    [] c.k = "rec" -> RecordText
    [] c.k = "footer" -> FooterText

RECURSIVE TextOf(_)
TextOf(content) ==
  IF content = << >> THEN << >> ELSE Text(Head(content)) \o TextOf(Tail(content))

\* reading a text from left to right: the number of objects and arrays open,
\* and whether a string is open; brackets inside a string do not count
RECURSIVE Nesting(_, _, _)
Nesting(text, depth, inString) ==
  IF text = << >> THEN [depth |-> depth, inString |-> inString]
  ELSE Nesting(Tail(text),
               IF inString THEN depth
               ELSE IF Head(text) \in {"{", "["} THEN depth + 1
               ELSE IF Head(text) \in {"}", "]"} THEN depth - 1
               ELSE depth,
               IF Head(text) = "\"" THEN ~inString ELSE inString)

Balanced(text) == Nesting(text, 0, FALSE) = [depth |-> 0, inString |-> FALSE]

\* C12: every stream that has been ended (by rollover or by stop()) holds a
\* balanced document: every object, string and array the header opens is
\* closed once the footer is written, the nesting depth is back to zero.
C12_ClosedStreamBalanced ==
  \A j \in 1..Len(io.streams) :
    io.streams[j].ended => Balanced(TextOf(io.streams[j].content))

\* a stream is open: its file was opened and end() has not been called on it
IsOpen(s) == s.opened /\ ~s.ended

\* C13: at most one stream is open per source path, across rollovers and
\* when one source file yields several instrumented units.
C13_OneOpenStreamPerPath ==
  \A j \in 1..Len(io.streams), j2 \in 1..Len(io.streams) :
    (IsOpen(io.streams[j]) /\ IsOpen(io.streams[j2])
     /\ io.streams[j].path = io.streams[j2].path) => j = j2

\* ---------------------------------------------- claims on the interceptor
\* C14: the records of the invocations sharing a FileLogger are appended in
\* the order in which the invocations settle, and a record once written
\* stays: after the k-th invocation has settled, the recorder has been handed
\* k records, the last of them the record of that invocation.
C14_RecordsInSettlementOrder ==
  wc.started
    => /\ Len(recorded) = ncalls
       /\ recorded[Len(recorded)].payload = cloneAll(wc.args)
       /\ recorded[Len(recorded)].method = <<wc.member>>

\* the argument lists of the method events among evs: how the original was
\* entered (as a call or as a construction), its this, and what it received
RECURSIVE MethodArgs(_)
MethodArgs(evs) ==
  IF evs = << >> THEN << >>
  ELSE (IF Head(evs).k = "method" THEN <<Head(evs).a>> ELSE << >>) \o MethodArgs(Tail(evs))

\* C17: each call of an intercepted non-constructor member, static or
\* instance, enters the original exactly once, as an ordinary call and not as
\* a construction, with the caller's arguments.
C17_OriginalCalledOnce ==
  (wc.started /\ wc.member # "constructor")
    => /\ Len(MethodArgs(wc.call.events)) = 1
       /\ MethodArgs(wc.call.events)[1][1] = "call"
       /\ Slice1(Slice1(MethodArgs(wc.call.events)[1])) = wc.args

\* C18: after instrumentClass the wrapper of the instance member
\* 'constructor' was created with isConstructor = true and the wrapper of
\* every other member, instance or static, with isConstructor = false.
C18_ConstructorFlagged ==
  wrappers # << >>
    => \A prop \in Members :
         /\ wrappers[prop].isConstructor = BoolStr(prop = "constructor")
         /\ wrappers[prop].applyArgs[2] = <<BoolStr(prop = "constructor")>>

\* ------------------------------------- claims on the Executor, continued
\* the callable has invoked the cb it was handed, or has thrown
CalledBack(c) ==
  c.threw # NoExc \/ \E i \in 1..Len(c.events) : c.events[i].k = "cb"

\* C15 (as stated): every call that begins eventually has the output handler
\* fire, whether or not the callable ever invokes a function passed as its
\* last argument, provided a promise it returns settles.
C15_AlwaysReported == ex.started ~> (HandlerCount(ex.events) >= 1)

\* C15 (amended): every call that begins eventually has the output handler
\* fire, provided a promise it returns settles and, when the last argument
\* was replaced by cb (callback style), the callable invokes cb or throws.
C15_ReportedOnceCalledBack ==
  (ex.started /\ (ReturnWithCB(ex.exec, ex.params) => CalledBack(ex)))
    ~> (HandlerCount(ex.events) >= 1)

C15_Witness ==
  /\ ex.started /\ ex.waiting /\ ex.p = "rejected"
  /\ HandlerArgs(ex.events) = << <<E>> >>

\* C19: with isAsync explicitly false and construct not set, the last
\* argument is not replaced and a returned promise is not waited for: the
\* callable is entered once, as a call, with the caller's argument list, and
\* before execute returns the handler has fired once, with the returned value
\* as success or the thrown error as error, and prm is settled.
C19_ExplicitlySync ==
  (ex.started /\ ex.exec.isAsync = "false" /\ ~Truthy(ex.exec.construct))
    => /\ Len(MethodArgs(ex.events)) = 1
       /\ MethodArgs(ex.events)[1][1] = "call"
       /\ Slice1(Slice1(MethodArgs(ex.events)[1])) = ex.params
       /\ \A i \in 1..Len(ex.events) : ex.events[i].k # "cb"
       /\ ~ex.waiting
       /\ HandlerArgs(ex.events) =
            << (IF ex.threw = NoExc THEN <<Null, ex.ret>> ELSE <<ex.threw>>) >>
       /\ ex.prm[1] # "pending"

C19_Witness ==
  /\ ex.started /\ ex.exec.isAsync = "false" /\ ~Truthy(ex.exec.construct)
  /\ ex.params = <<"2", "userCb">>
  /\ ex.ret = "p" /\ ex.p = "resolved"
  /\ MethodArgs(ex.events) = << <<"call", Undefined, "2", "userCb">> >>
  /\ HandlerArgs(ex.events) = << <<Null, "p">> >>

\* ------------------------------------- claims on the recorder, continued
\* C16: when the destination directory cannot be created or the stream cannot
\* be opened, nothing is raised to the host program: the host is never ended
\* by the error of a stream that could not be opened.
C16_IoFailureTolerated == host # "ENOENT"

\* the n-th record is in a stream, after the header and before any footer
Kept(s, n) ==
  \E k \in 2..Len(s.content) :
    /\ s.content[k] = Chunk("rec", n)
    /\ s.content[1] = Header
    /\ \A k2 \in 1..k : s.content[k2] # Footer

\* C20: for any sequence of log(), stop() and day changes, a stream holds
\* nothing after its footer and holds the footer at most once, and every
\* log(), also one that follows stop() on the same day, has its record in a
\* stream that was open, after that stream's header; none is sent to a stream
\* that has ended.
C20_NothingAfterFooter ==
  /\ \A j \in 1..Len(io.streams) :
       /\ \A k \in 1..Len(io.streams[j].content) :
            io.streams[j].content[k] = Footer => k = Len(io.streams[j].content)
       /\ \A c \in io.streams[j].refused : c.k # "rec"
  /\ \A n \in 1..Len(logged) : \E j \in 1..Len(io.streams) : Kept(io.streams[j], n)
====
